---- MODULE Spec2Model ----
(***************************************************************************)
(* A model of the Remote Settings client (src/src/client.rs): Client::get, *)
(* Client::sync and merge_changes, together with the contracts of the      *)
(* collaborators the client drives (Storage, Verification, the two         *)
(* kinto_http requests).                                                   *)
(*                                                                         *)
(* One sync call is a sequence of steps, one per suspension point of the   *)
(* call (storage read, latest-change lookup, changeset fetch, storage      *)
(* write); pc is the position of the call in progress.  The client is      *)
(* owned by one caller, so no other operation runs while pc # "idle".      *)
(***************************************************************************)
EXTENDS Naturals, Sequences, FiniteSets, TLC

VARIABLES
    storage,            \* the Storage backend: key -> Option<Vec<u8>>
    verifier,           \* Client.verifier, fixed by ClientBuilder::build
    server,             \* the settings server's collection (SpecServer only)
    pc,                 \* position of the call in progress
    op,                 \* the public operation that was called last
    expected,           \* sync's argument, Option<u64>
    stored,             \* sync's local `stored`: Option<Collection>
    remote_timestamp,   \* sync's local `remote_timestamp`: Option<u64>
    changeset,          \* the changeset response of this call, Option
    collection,         \* sync's merged candidate `collection`, Option
    result,             \* what the call returned, Option<Result<..>>
    log,                \* the calls made on the collaborators, in order
    before,             \* the bytes under the storage key when the call began
    local_records,      \* merge harness: input list
    remote_changes,     \* merge harness: input list
    merged,             \* merge harness: Option of merge_changes's output
    merged_again,       \* merge harness: Option of the second application
    previous            \* the last sync, if it succeeded (SpecRepeat only)

vars == << storage, verifier, server, pc, op, expected, stored,
           remote_timestamp, changeset, collection, result, log, before,
           local_records, remote_changes, merged, merged_again, previous >>

clientVars == << storage, verifier, pc, op, expected, stored,
                 remote_timestamp, changeset, collection, result, log, before >>

harnessVars == << local_records, remote_changes, merged, merged_again >>

---------------------------------------------------------------------------
(* Bounds of the model.                                                    *)

MaxTimestamp == 2       \* timestamps range over 0..MaxTimestamp
MaxChanges == 2         \* a mock changeset carries at most this many changes
MaxMergeLen == 2        \* merge harness: longest input list
MaxServerTimestamp == 3 \* the settings server publishes this many changes

---------------------------------------------------------------------------
(* Option<T> is a sequence of length 0 or 1.                               *)

None == << >>
Some(v) == << v >>
is_some(o) == Len(o) = 1
unwrap(o) == o[1]
unwrap_or(o, d) == IF is_some(o) THEN o[1] ELSE d

Timestamps == 0 .. MaxTimestamp

---------------------------------------------------------------------------
(* JSON documents.  A KintoObject is a JSON object of which the client     *)
(* reads the fields "id" and "deleted"; "field" stands for the fields it    *)
(* carries through.  A field holds the JSON text of its value, or Absent.  *)

Absent == "<absent>"

JsonTrue == "true"
JsonFalse == "false"
JsonString == "\"true\""     \* a JSON string: not a boolean

Ids == {"record-1", "record-2"}
DeletedValues == {Absent, JsonTrue, JsonFalse, JsonString}
Fields == {"before", "after"}

KintoObject(i, d, f) == [id |-> i, deleted |-> d, field |-> f]

\* serde_json::Value::to_string of record["id"]: a missing key indexes to
\* Value::Null, a string is written with its quotes.
id_to_string(object) ==
    IF object.id = Absent THEN "null" ELSE "\"" \o object.id \o "\""

\* (mutant: the tombstone test reads a key the changes do not carry)
is_deleted_wrong_key(change) == FALSE

\* (mutant: every value of "deleted" but false counts as true)
is_deleted_truthy(change) == change.deleted \notin {Absent, JsonFalse}

\* change.get("deleted").unwrap_or(&json!(false)).as_bool().unwrap_or(false)
is_deleted(change) ==
    LET value == IF change.deleted = Absent THEN JsonFalse ELSE change.deleted
        as_bool == IF value = JsonTrue THEN Some(TRUE)
                   ELSE IF value = JsonFalse THEN Some(FALSE)
                   ELSE None
    IN unwrap_or(as_bool, FALSE)

---------------------------------------------------------------------------
(* merge_changes.  local_by_id is the HashMap, a function from the keys    *)
(* present to their records.                                               *)

insert(map, key, value) ==
    [k \in (DOMAIN map) \cup {key} |-> IF k = key THEN value ELSE map[k]]

remove(map, key) ==
    [k \in (DOMAIN map) \ {key} |-> map[k]]

EmptyMap == [k \in {} |-> Absent]

\* (mutant: the map is not seeded with the local records)
seed_local_skipped(map, records) == map

RECURSIVE seed_local(_, _)
\* for record in local_records { local_by_id.insert(id, record) }
seed_local(map, records) ==
    IF records = << >> THEN map
    ELSE seed_local(insert(map, id_to_string(Head(records)), Head(records)),
                    Tail(records))

\* (mutant: a tombstone for an id the map does not hold is kept as a record)
apply_change_keeping_tombstone(map, change) ==
    IF is_deleted(change) /\ id_to_string(change) \in DOMAIN map
    THEN remove(map, id_to_string(change))
    ELSE insert(map, id_to_string(change), change)

apply_change(map, change) ==
    IF is_deleted(change)
    THEN remove(map, id_to_string(change))
    ELSE insert(map, id_to_string(change), change)

\* (mutant: the changes are applied from the first to the last)
RECURSIVE apply_changes_in_order(_, _)
apply_changes_in_order(map, changes) ==
    IF changes = << >> THEN map
    ELSE apply_changes_in_order(apply_change(map, Head(changes)), Tail(changes))

RECURSIVE apply_changes_rev(_, _)
\* for change in remote_changes.iter().rev() { ... }: the last element first
apply_changes_rev(map, changes) ==
    IF changes = << >> THEN map
    ELSE apply_changes_rev(apply_change(map, changes[Len(changes)]),
                           SubSeq(changes, 1, Len(changes) - 1))

local_by_id(locals, changes) ==
    apply_changes_rev(seed_local(EmptyMap, locals), changes)

\* The sequences that list every value of the map once: HashMap::values
\* iterates in an unspecified order.
values(map) ==
    LET n == Cardinality(DOMAIN map)
    IN { [i \in 1 .. n |-> map[order[i]]] :
           order \in { o \in [1 .. n -> DOMAIN map] :
                         \A i, j \in 1 .. n : i # j => o[i] # o[j] } }

\* (mutant: the changes that are no tombstone are appended to the local list)
RECURSIVE live_changes(_)
live_changes(changes) ==
    IF changes = << >> THEN << >>
    ELSE IF is_deleted(Head(changes)) THEN live_changes(Tail(changes))
    ELSE << Head(changes) >> \o live_changes(Tail(changes))
merge_changes_appending(locals, changes) ==
    {locals \o live_changes(changes)}

\* The outputs merge_changes can return for these inputs.
merge_changes(locals, changes) ==
    values(local_by_id(locals, changes))

---------------------------------------------------------------------------
(* Collection and its JSON serialisation.                                  *)

DEFAULT_BUCKET_NAME == "main"
CollectionName == "cid"

Collection(bid, cid, metadata, records, timestamp) ==
    [bid |-> bid, cid |-> cid, metadata |-> metadata,
     records |-> records, timestamp |-> timestamp]

\* (mutant: the key names the bucket only)
storage_key_of_bucket(bucket_name, collection_name) ==
    bucket_name \o "/:collection"

\* format!("{}/{}:collection", bucket_name, collection_name)
storage_key(bucket_name, collection_name) ==
    bucket_name \o "/" \o collection_name \o ":collection"

\* The storage is shared: next to the key of this client it holds the key
\* of the client of another collection and a key that is no client's.
OtherCollectionName == "cfr"

OwnKey == storage_key(DEFAULT_BUCKET_NAME, CollectionName)
OtherKey == "main/cfr"
OtherCollectionKey == storage_key(DEFAULT_BUCKET_NAME, OtherCollectionName)
Keys == {OwnKey, OtherKey, OtherCollectionKey}

\* Bytes are a text; a text that is the JSON of a Collection carries it.
Bytes(text, doc) == [text |-> text, doc |-> doc]
MalformedBytes == Bytes("abc", None)
EmptyBytes == Bytes("", None)
NullBytes == Bytes("null", None)

\* (mutant: the text is cut short)
to_bytes_cut_short(c) == Bytes("{collection", None)

\* serde_json::to_string(&collection)?.into()
to_bytes(c) == Bytes("{collection}", Some(c))

\* (mutant: bytes that do not decode become an empty collection)
from_slice_or_default(bytes) ==
    IF bytes.text = "{collection}" THEN bytes.doc
    ELSE IF bytes.text = "null" THEN None
    ELSE Some(Collection(DEFAULT_BUCKET_NAME, CollectionName,
                         [signature |-> Absent], << >>, 0))

\* serde_json::from_slice::<Option<Collection>>(&bytes).unwrap_or(None)
from_slice(bytes) ==
    IF bytes.text = "{collection}" THEN bytes.doc ELSE None

\* storage.retrieve(key).unwrap_or(None).unwrap_or_else(Vec::new), decoded
load_stored(retrieved) ==
    LET stored_bytes ==
            IF retrieved.ok
            THEN unwrap_or(retrieved.value, EmptyBytes)
            ELSE EmptyBytes
    IN from_slice(stored_bytes)

---------------------------------------------------------------------------
(* Errors.  ClientError and its From conversions.                          *)

ClientError(kind, name) ==
    [kind |-> kind, name |-> name, value |-> None, records |-> << >>]

\* (mutant: the kind of the KintoError is kept in the ClientError)
from_kinto_error_by_kind(err) == ClientError(err.kind, err.name)

\* (mutant: a transport failure reported as a storage failure)
kinto_error_as_storage_error(err) == ClientError("StorageError", err.name)

\* impl From<KintoError> for ClientError
from_kinto_error(err) == ClientError("Error", err.name)

\* impl From<StorageError> for ClientError
from_storage_error(err) == ClientError("StorageError", err.name)

\* impl From<SignatureError> for ClientError
from_signature_error(err) == ClientError("VerificationError", err.name)

\* Ok(collection) of sync, Ok(records) of get
OkCollection(c) ==
    [kind |-> "Ok", name |-> "", value |-> Some(c), records |-> << >>]
OkRecords(records) ==
    [kind |-> "Ok", name |-> "", value |-> None, records |-> records]

---------------------------------------------------------------------------
(* The Verification contract: verify(&Collection) -> Result<(), Error>.    *)

SigOk == [ok |-> TRUE, kind |-> "", name |-> ""]
SigErr(kind, name) == [ok |-> FALSE, kind |-> kind, name |-> name]

\* The two verifiers of the test module.
VerifierWithNoError(c) == SigOk
VerifierWithInvalidSignatureError(c) ==
    SigErr("InvalidSignature", "invalid signature error from tests")

\* A content verifier: the metadata carries a signature over the records
\* (whatever their order) and the timestamp.
Signatures == {"sig-even", "sig-odd"}
Metadata(signature) == [signature |-> signature]

signature_of(records, timestamp) ==
    IF (Len(records) + timestamp) % 2 = 0 THEN "sig-even" ELSE "sig-odd"

ContentVerifier(c) ==
    IF c.metadata.signature = Absent
    THEN SigErr("VerificationError", "x5u field not present in signature")
    ELSE IF c.metadata.signature # signature_of(c.records, c.timestamp)
    THEN SigErr("InvalidSignature", "signature mismatch")
    ELSE SigOk

Verifiers ==
    {"VerifierWithNoError", "VerifierWithInvalidSignatureError", "ContentVerifier"}

\* self.verifier.verify(&collection)
verify(v, c) ==
    CASE v = "VerifierWithNoError" -> VerifierWithNoError(c)
      [] v = "VerifierWithInvalidSignatureError" -> VerifierWithInvalidSignatureError(c)
      [] OTHER -> ContentVerifier(c)

---------------------------------------------------------------------------
(* The Storage contract.                                                   *)

RetrieveOk(value) == [ok |-> TRUE, value |-> value, name |-> ""]
RetrieveErr == [ok |-> FALSE, value |-> None, name |-> "read error"]

\* What storage.retrieve(key) can return in this state.
retrieve(key) == {RetrieveOk(storage[key]), RetrieveErr}

StoreOk == [ok |-> TRUE, name |-> ""]
StoreErr == [ok |-> FALSE, name |-> "write error"]

\* What storage.store(key, value) can return.
StoreOutcomes == {StoreOk, StoreErr}

---------------------------------------------------------------------------
(* The transport: kinto_http::get_latest_change_timestamp and              *)
(* kinto_http::get_changeset, answered by an arbitrary (mock) server.      *)

KintoOk(value) == [ok |-> TRUE, value |-> Some(value), kind |-> "", name |-> ""]
KintoError(kind, name) == [ok |-> FALSE, value |-> None, kind |-> kind, name |-> name]

\* The name of a KintoError is a text the transport writes; a failed request
\* is of either kind, an unknown collection is a client error.
KintoErrors ==
    {KintoError("ServerError", "request failed"),
     KintoError("ClientError", "request failed"),
     KintoError("ClientError", "Unknown collection main/cid")}

LatestChangeOutcomes == {KintoOk(t) : t \in Timestamps} \cup KintoErrors

SeqsUpTo(S, n) == UNION {[1 .. k -> S] : k \in 0 .. n}

MockObjects == {KintoObject(i, d, "before") : i \in Ids, d \in {Absent, JsonTrue}}

ChangesetResponse(metadata, changes, timestamp) ==
    [metadata |-> metadata, changes |-> changes, timestamp |-> timestamp]

\* The metadata of a mock answer carries one and the same signature.
MockMetadatas == {Metadata("sig-even")}

MockChangesets ==
    {KintoOk(ChangesetResponse(m, c, t)) :
        m \in MockMetadatas, c \in SeqsUpTo(MockObjects, MaxChanges), t \in Timestamps}
    \cup KintoErrors

---------------------------------------------------------------------------
(* The calls made on the collaborators.                                    *)

Call(name, arg, exp, since, ok) ==
    [call |-> name, arg |-> arg, expected |-> exp, since |-> since, ok |-> ok,
     value |-> None, kind |-> "", name |-> "", key |-> ""]

\* A call on the storage, with the key it is made with.
StorageCall(call) ==
    [call EXCEPT !.key = storage_key(DEFAULT_BUCKET_NAME, CollectionName)]

\* A call on the transport, with the KintoError it failed with, if any.
TransportCall(call, outcome) ==
    [call EXCEPT !.kind = outcome.kind, !.name = outcome.name]

\* The latest-change lookup and the timestamp it answered, if any.
LookupCall(latest) ==
    [TransportCall(Call("get_latest_change_timestamp", None, None, None, latest.ok),
                   latest)
        EXCEPT !.value = latest.value]

Calls(name) == {i \in 1 .. Len(log) : log[i].call = name}

---------------------------------------------------------------------------
(* Client::sync, step by step.                                             *)

NoCall ==
    /\ expected = None /\ stored = None /\ remote_timestamp = None
    /\ changeset = None /\ collection = None /\ result = None
    /\ log = << >> /\ before = None
    /\ previous = None

\* The call returns r: nothing of the call runs after a return.
Return(r) == result' = Some(r) /\ pc' = "done"

\* Line 339, `self.verifier.verify(&collection)?`: the call goes on only
\* when the verifier accepted the candidate.
verify_ignored(verdict) == TRUE
verify_gate(verdict) == verdict.ok

\* Lines 330-336: the candidate built from the response and the merged records.
candidate_at_target(response, records) ==
    Collection(DEFAULT_BUCKET_NAME, CollectionName, response.metadata,
               records, unwrap(remote_timestamp))
candidate(response, records) ==
    Collection(DEFAULT_BUCKET_NAME, CollectionName, response.metadata,
               records, response.timestamp)

\* Lines 279-287: the storage read and the decoding of the stored bytes.
SyncLoad(exp, retrieved) ==
    /\ pc = "idle"
    /\ op' = "sync"
    /\ expected' = exp
    /\ before' = storage[OwnKey]
    /\ stored' = load_stored(retrieved)
    /\ log' = << StorageCall(Call("retrieve", None, None, None, retrieved.ok)) >>
    /\ remote_timestamp' = None /\ changeset' = None /\ collection' = None
    /\ result' = None
    /\ pc' = "resolve"
    /\ UNCHANGED << storage, verifier, server >>

\* Line 302: collection.timestamp == remote_timestamp
local_is_newer(local, timestamp) == local.timestamp > timestamp
up_to_date_or_newer(local, timestamp) == local.timestamp >= timestamp
up_to_date(local, timestamp) == local.timestamp = timestamp

\* Lines 301-307: the up-to-date test, with the calls made so far.
UpToDate(timestamp, calls) ==
    LET fresh == is_some(stored) /\ up_to_date(unwrap(stored), timestamp)
        verdict == verify(verifier, unwrap(stored))
    IN /\ remote_timestamp' = Some(timestamp)
       /\ IF fresh
          THEN /\ log' = Append(calls, Call("verify", stored, None, None, verdict.ok))
               /\ IF verdict.ok
                  THEN Return(OkCollection(unwrap(stored)))
                  ELSE result' = None /\ pc' = "fetch"
          ELSE log' = calls /\ result' = None /\ pc' = "fetch"

\* (mutant: the latest change is asked although `expected` is Some(v))
SyncResolveAfterLookup ==
    /\ pc = "resolve"
    /\ is_some(expected)
    /\ UpToDate(unwrap(expected), Append(log, LookupCall(KintoOk(unwrap(expected)))))
    /\ UNCHANGED << storage, verifier, server, op, expected, stored,
                    changeset, collection, before >>

\* Lines 289-290 and 301-307: `expected` is Some(v).
SyncResolveExpected ==
    /\ pc = "resolve"
    /\ is_some(expected)
    /\ UpToDate(unwrap(expected), log)
    /\ UNCHANGED << storage, verifier, server, op, expected, stored,
                    changeset, collection, before >>

\* Lines 291-298 and 301-307: `expected` is None, the latest change is asked.
SyncResolveLatest(latest) ==
    /\ pc = "resolve"
    /\ ~is_some(expected)
    /\ LET calls == Append(log, LookupCall(latest))
       IN IF latest.ok
          THEN UpToDate(unwrap(latest.value), calls)
          ELSE /\ log' = calls
               /\ remote_timestamp' = None
               /\ Return(from_kinto_error(latest))
    /\ UNCHANGED << storage, verifier, server, op, expected, stored,
                    changeset, collection, before >>

\* Lines 310-313: the `_since` of the request, Some(c.timestamp) of the
\* decoded snapshot and None without one.
local_timestamp_omitted(local) == None
local_timestamp_of(local) ==
    IF is_some(local) THEN Some(unwrap(local).timestamp) ELSE None

\* Lines 310-339: the changeset request, the merge and the verification.
SyncFetch(response) ==
    /\ pc = "fetch"
    /\ LET locals == IF is_some(stored) THEN unwrap(stored).records ELSE << >>
           local_timestamp == local_timestamp_of(stored)
           calls == Append(log, TransportCall(
                               Call("get_changeset", None, remote_timestamp,
                                    local_timestamp, response.ok),
                               response))
       IN IF ~response.ok
          THEN /\ log' = calls
               /\ changeset' = None /\ collection' = None
               /\ Return(from_kinto_error(response))
          ELSE \E records \in merge_changes(locals, unwrap(response.value).changes) :
                 LET c == candidate(unwrap(response.value), records)
                     verdict == verify(verifier, c)
                 IN /\ changeset' = response.value
                    /\ collection' = Some(c)
                    /\ log' = Append(calls, Call("verify", Some(c), None, None,
                                                 verdict.ok))
                    /\ IF verify_gate(verdict)
                       THEN result' = None /\ pc' = "store"
                       ELSE Return(from_signature_error(verdict))
    /\ UNCHANGED << storage, verifier, server, op, expected, stored,
                    remote_timestamp, before >>

\* Lines 341-345: serialisation (which cannot fail on a JSON tree), the
\* storage write and the return.
SyncStore(outcome) ==
    /\ pc = "store"
    /\ log' = Append(log, StorageCall(Call("store", collection, None, None,
                                            outcome.ok)))
    /\ IF outcome.ok
       THEN /\ storage' = [storage EXCEPT ![OwnKey] = Some(to_bytes(unwrap(collection)))]
            /\ Return(OkCollection(unwrap(collection)))
       ELSE /\ storage' = storage
            /\ Return(from_storage_error(outcome))
    /\ UNCHANGED << verifier, server, op, expected, stored, remote_timestamp,
                    changeset, collection, before >>

---------------------------------------------------------------------------
(* Client::get, lines 246-265.                                             *)

\* (mutant: get answers with an empty list whatever is stored)
get_records_never_synced(retrieved) == << >>

\* Lines 257-264: the records of the decoded snapshot, or an empty list.
get_records(retrieved) ==
    LET local == load_stored(retrieved)
    IN IF is_some(local) THEN unwrap(local).records ELSE << >>

Get(retrieved) ==
    /\ pc = "idle"
    /\ op' = "get"
    /\ before' = storage[OwnKey]
    /\ log' = << StorageCall(Call("retrieve", None, None, None, retrieved.ok)) >>
    /\ result' = Some(OkRecords(get_records(retrieved)))
    /\ expected' = None /\ stored' = None /\ remote_timestamp' = None
    /\ changeset' = None /\ collection' = None
    /\ pc' = "done"
    /\ UNCHANGED << storage, verifier, server >>

---------------------------------------------------------------------------
(* The caller has the result of the call; the locals of the call are gone  *)
(* and the client is free for the next call.                               *)

Returned ==
    /\ pc = "done"
    /\ pc' = "idle" /\ op' = "none"
    /\ expected' = None /\ stored' = None /\ remote_timestamp' = None
    /\ changeset' = None /\ collection' = None /\ result' = None
    /\ log' = << >> /\ before' = None
    /\ UNCHANGED << storage, verifier, server >>

---------------------------------------------------------------------------
(* The environment: between two calls the bytes under the key may be lost  *)
(* or damaged.                                                             *)

DamagedBytes == {None, Some(MalformedBytes), Some(NullBytes)}

Damage(bytes) ==
    /\ pc = "idle"
    /\ storage[OwnKey] # bytes
    /\ storage' = [storage EXCEPT ![OwnKey] = bytes]
    /\ UNCHANGED << verifier, server, pc, op, expected, stored, remote_timestamp,
                    changeset, collection, result, log, before >>

---------------------------------------------------------------------------
(* The client against an arbitrary server.                                 *)

NoServer == [records |-> << >>, timestamp |-> 0]

HarnessIdle ==
    /\ local_records = << >> /\ remote_changes = << >>
    /\ merged = None /\ merged_again = None

\* What the other keys of the storage hold: the snapshot of the other
\* collection, and bytes that are no snapshot.
OtherCollectionBytes ==
    to_bytes(Collection(DEFAULT_BUCKET_NAME, OtherCollectionName,
                        Metadata("sig-odd"),
                        << KintoObject("record-1", Absent, "after") >>, 0))

OtherBytes(key) ==
    IF key = OtherCollectionKey THEN Some(OtherCollectionBytes)
    ELSE Some(MalformedBytes)

\* Client::builder().collection_name(..).verifier(..).storage(..).build()
Init ==
    /\ storage \in {[k \in Keys |-> IF k = OwnKey THEN bytes ELSE OtherBytes(k)] :
                       bytes \in DamagedBytes}
    /\ verifier \in Verifiers
    /\ server = NoServer
    /\ pc = "idle" /\ op = "none"
    /\ NoCall
    /\ HarnessIdle

Next ==
    \/ \E exp \in {None} \cup {Some(t) : t \in Timestamps} :
         \E retrieved \in retrieve(OwnKey) :
           SyncLoad(exp, retrieved) /\ UNCHANGED << harnessVars, previous >>
    \/ SyncResolveExpected /\ UNCHANGED << harnessVars, previous >>
    \/ \E latest \in LatestChangeOutcomes :
         SyncResolveLatest(latest) /\ UNCHANGED << harnessVars, previous >>
    \/ \E response \in MockChangesets :
         SyncFetch(response) /\ UNCHANGED << harnessVars, previous >>
    \/ \E outcome \in StoreOutcomes :
         SyncStore(outcome) /\ UNCHANGED << harnessVars, previous >>
    \/ \E retrieved \in retrieve(OwnKey) :
         Get(retrieved) /\ UNCHANGED << harnessVars, previous >>
    \/ Returned /\ UNCHANGED << harnessVars, previous >>
    \/ \E bytes \in DamagedBytes :
         Damage(bytes) /\ UNCHANGED << harnessVars, previous >>

Spec == Init /\ [][Next]_vars

---------------------------------------------------------------------------
(* merge_changes on its own: the inputs are drawn from bounded lists, the  *)
(* function is applied, then applied again to its own output with the same *)
(* changes.                                                                *)

HarnessLocals ==
    {KintoObject(i, Absent, "before") : i \in Ids \cup {Absent}}
HarnessChanges ==
    {KintoObject(i, d, "after") : i \in Ids \cup {Absent}, d \in DeletedValues}

ClientIdle ==
    /\ storage = [k \in Keys |-> None]
    /\ verifier = "VerifierWithNoError"
    /\ server = NoServer
    /\ pc = "idle" /\ op = "none"
    /\ NoCall

InitMerge ==
    /\ local_records \in SeqsUpTo(HarnessLocals, MaxMergeLen)
    /\ remote_changes \in SeqsUpTo(HarnessChanges, MaxMergeLen)
    /\ merged = None /\ merged_again = None
    /\ ClientIdle

Merge ==
    /\ merged = None
    /\ \E records \in merge_changes(local_records, remote_changes) :
         merged' = Some(records)
    /\ UNCHANGED << local_records, remote_changes, merged_again >>

MergeAgain ==
    /\ is_some(merged) /\ merged_again = None
    /\ \E records \in merge_changes(unwrap(merged), remote_changes) :
         merged_again' = Some(records)
    /\ UNCHANGED << local_records, remote_changes, merged >>

NextMerge ==
    \/ Merge /\ UNCHANGED << clientVars, server, previous >>
    \/ MergeAgain /\ UNCHANGED << clientVars, server, previous >>

SpecMerge == InitMerge /\ [][NextMerge]_vars

---------------------------------------------------------------------------
(* The client against a settings server that keeps its collection: one     *)
(* entry per id, newest first, a deleted record staying as a tombstone.    *)
(* Every change takes the next timestamp.  The changeset endpoint answers  *)
(* with the live records when no _since is given, and with the entries     *)
(* (tombstones included) modified after _since otherwise; _expected only   *)
(* busts caches.                                                           *)

ServerEntry(object, last_modified) ==
    [object |-> object, last_modified |-> last_modified]

others(entries, id) ==
    LET other(e) == e.object.id # id IN SelectSeq(entries, other)

is_live(entries, id) ==
    \E i \in 1 .. Len(entries) :
        entries[i].object.id = id /\ entries[i].object.deleted # JsonTrue

ServerPublish(id, field) ==
    /\ pc = "idle"
    /\ server.timestamp < MaxServerTimestamp
    /\ server' = [records |-> << ServerEntry(KintoObject(id, Absent, field),
                                             server.timestamp + 1) >>
                                \o others(server.records, id),
                  timestamp |-> server.timestamp + 1]
    /\ UNCHANGED clientVars

ServerDelete(id) ==
    /\ pc = "idle"
    /\ server.timestamp < MaxServerTimestamp
    /\ is_live(server.records, id)
    /\ server' = [records |-> << ServerEntry(KintoObject(id, JsonTrue, Absent),
                                             server.timestamp + 1) >>
                                \o others(server.records, id),
                  timestamp |-> server.timestamp + 1]
    /\ UNCHANGED clientVars

objects(entries) == [i \in 1 .. Len(entries) |-> entries[i].object]

live_records ==
    LET live(e) == e.object.deleted # JsonTrue
    IN objects(SelectSeq(server.records, live))

\* GET /buckets/{bucket}/collections/{collection}/changeset?_since=
server_changeset(since) ==
    LET newer(e) == e.last_modified > unwrap(since)
        changes == IF is_some(since)
                   THEN objects(SelectSeq(server.records, newer))
                   ELSE live_records
    IN ChangesetResponse(
           Metadata(signature_of(live_records, server.timestamp)),
           changes, server.timestamp)

\* GET /buckets/monitor/collections/changes/changeset
server_latest_change == server.timestamp

InitServer ==
    /\ storage = [k \in Keys |-> None]
    /\ verifier \in Verifiers
    /\ server = NoServer
    /\ pc = "idle" /\ op = "none"
    /\ NoCall
    /\ HarnessIdle

NextServer ==
    \/ \E exp \in {None} \cup {Some(t) : t \in Timestamps} :
         \E retrieved \in retrieve(OwnKey) :
           SyncLoad(exp, retrieved) /\ UNCHANGED << harnessVars, previous >>
    \/ SyncResolveExpected /\ UNCHANGED << harnessVars, previous >>
    \/ \E latest \in {KintoOk(server_latest_change)} \cup KintoErrors :
         SyncResolveLatest(latest) /\ UNCHANGED << harnessVars, previous >>
    \/ \E response \in {KintoOk(server_changeset(local_timestamp_of(stored)))}
                          \cup KintoErrors :
         SyncFetch(response) /\ UNCHANGED << harnessVars, previous >>
    \/ \E outcome \in StoreOutcomes :
         SyncStore(outcome) /\ UNCHANGED << harnessVars, previous >>
    \/ \E retrieved \in retrieve(OwnKey) :
         Get(retrieved) /\ UNCHANGED << harnessVars, previous >>
    \/ Returned /\ UNCHANGED << harnessVars, previous >>
    \/ \E id \in Ids, field \in Fields :
         ServerPublish(id, field) /\ UNCHANGED << harnessVars, previous >>
    \/ \E id \in Ids :
         ServerDelete(id) /\ UNCHANGED << harnessVars, previous >>

SpecServer == InitServer /\ [][NextServer]_vars

---------------------------------------------------------------------------
(* What a finished call shows.                                             *)

SyncDone == pc = "done" /\ op = "sync"
GetDone == pc = "done" /\ op = "get"

Returns == unwrap(result)
ReturnsOk == is_some(result) /\ Returns.kind = "Ok"
Returned_collection == unwrap(Returns.value)

\* The snapshot that bytes under the key decode to, if any.
Snapshot(bytes) == IF is_some(bytes) THEN from_slice(unwrap(bytes)) ELSE None

\* Bytes that fail to decode (the JSON `null` decodes, to no snapshot).
Undecodable(bytes) ==
    is_some(bytes) /\ unwrap(bytes).text \notin {"null", "{collection}"}

Fetched == Calls("get_changeset") # {}
Stored == Calls("store") # {}
Accepted(c) ==
    \E i \in Calls("verify") : log[i].arg = Some(c) /\ log[i].ok
CandidateRejected ==
    is_some(collection) /\ ~verify(verifier, unwrap(collection)).ok

IdsOf(records) == {records[i].id : i \in 1 .. Len(records)}
DistinctIds(records) == Cardinality(IdsOf(records)) = Len(records)
Tombstones(records) == {i \in 1 .. Len(records) : records[i].deleted = JsonTrue}

---------------------------------------------------------------------------
(* C1: Verification is a hard gate.  In every sync call in which the       *)
(* verifier rejects the merged candidate, sync returns VerificationError   *)
(* with the verifier's error name, store is never invoked in the call and  *)
(* the bytes under the storage key are those of before the call.           *)
VerificationIsHardGate ==
    (op = "sync" /\ CandidateRejected) =>
        /\ pc = "done"
        /\ result = Some(ClientError("VerificationError",
                                     verify(verifier, unwrap(collection)).name))
        /\ ~Stored
        /\ storage[OwnKey] = before

\* A sync over an existing snapshot whose candidate the verifier rejected.
RejectedOverSnapshot ==
    /\ SyncDone /\ CandidateRejected
    /\ is_some(Snapshot(before))
    /\ unwrap(collection) # unwrap(Snapshot(before))

(* C2: every Collection sync returns as Ok, on the fast path or after a    *)
(* fetch, was accepted by the verifier during that same call.              *)
OkOnlyIfVerified ==
    (SyncDone /\ ReturnsOk) => Accepted(Returned_collection)

\* Both ways of returning Ok have happened: this one is after a fetch.
OkAfterFetch ==
    SyncDone /\ ReturnsOk /\ Fetched /\ verifier = "ContentVerifier"

(* C3: fast path.  When a decodable local snapshot is loaded, its          *)
(* timestamp equals the target and the verifier accepts it, sync returns   *)
(* that snapshot unchanged, issues no changeset request and does not call  *)
(* store.                                                                  *)
FastPath ==
    (/\ SyncDone
     /\ log[1].ok /\ is_some(Snapshot(before))
     /\ is_some(remote_timestamp)
     /\ unwrap(Snapshot(before)).timestamp = unwrap(remote_timestamp)
     /\ verify(verifier, unwrap(Snapshot(before))).ok)
    => /\ result = Some(OkCollection(unwrap(Snapshot(before))))
       /\ ~Fetched
       /\ ~Stored
       /\ storage[OwnKey] = before

\* The fast path taken over a snapshot that has records.
FastPathTaken ==
    /\ SyncDone /\ ReturnsOk /\ ~Fetched
    /\ is_some(Snapshot(before))
    /\ Returned_collection.records # << >>

(* C4, as claimed: for every successful sync call the timestamp of the     *)
(* returned collection equals the timestamp of the changeset response of   *)
(* that call.                                                              *)
ReturnedTimestampIsChangesetTimestamp ==
    (SyncDone /\ ReturnsOk) =>
        /\ is_some(changeset)
        /\ Returned_collection.timestamp = unwrap(changeset).timestamp

(* C4, amended: a successful sync that fetched returns the timestamp of    *)
(* the changeset response of that call, whatever the target and the local  *)
(* timestamp; a successful sync on the fast path has no changeset response *)
(* and returns the stored timestamp, which equals the target.              *)
ReturnedTimestamp ==
    (SyncDone /\ ReturnsOk) =>
        IF Fetched
        THEN /\ is_some(changeset)
             /\ Returned_collection.timestamp = unwrap(changeset).timestamp
        ELSE /\ changeset = None
             /\ Returned_collection.timestamp = unwrap(stored).timestamp
             /\ Returned_collection.timestamp = unwrap(remote_timestamp)

\* A fetch answered with a timestamp that is neither target nor local one.
ReturnedServerTimestamp ==
    /\ SyncDone /\ ReturnsOk /\ Fetched
    /\ is_some(stored)
    /\ Returned_collection.timestamp # unwrap(remote_timestamp)
    /\ Returned_collection.timestamp # unwrap(stored).timestamp

(* C5: across successful sync calls the timestamp of the persisted         *)
(* snapshot never decreases.                                               *)
PersistedTimestampMonotonic ==
    (SyncDone /\ ReturnsOk /\ is_some(Snapshot(before))) =>
        /\ is_some(Snapshot(storage[OwnKey]))
        /\ unwrap(Snapshot(before)).timestamp
              <= unwrap(Snapshot(storage[OwnKey])).timestamp

(* C6: starting from an empty store, no record of the stored snapshot is   *)
(* a tombstone, and get returns no record with `deleted` true.             *)
NoTombstoneStored ==
    /\ is_some(Snapshot(storage[OwnKey])) =>
           Tombstones(unwrap(Snapshot(storage[OwnKey])).records) = {}
    /\ GetDone => Tombstones(Returns.records) = {}

\* A changeset with a tombstone was merged and a record is stored.
TombstoneMerged ==
    /\ SyncDone /\ ReturnsOk /\ is_some(changeset)
    /\ Tombstones(unwrap(changeset).changes) # {}
    /\ is_some(Snapshot(storage[OwnKey]))
    /\ unwrap(Snapshot(storage[OwnKey])).records # << >>

(* C7: for every successful sync the ids of the returned and of the        *)
(* persisted records are pairwise distinct, also when the changeset has    *)
(* several entries for one id.                                             *)
IdsUnique ==
    (SyncDone /\ ReturnsOk) =>
        /\ DistinctIds(Returned_collection.records)
        /\ is_some(Snapshot(storage[OwnKey]))
        /\ DistinctIds(unwrap(Snapshot(storage[OwnKey])).records)

\* A changeset with two entries for one id, that id being in the result.
DuplicateIdMerged ==
    /\ SyncDone /\ ReturnsOk /\ is_some(changeset)
    /\ LET changes == unwrap(changeset).changes
       IN \E i, j \in 1 .. Len(changes) :
            /\ i < j /\ changes[i].id = changes[j].id
            /\ changes[i].id \in IdsOf(Returned_collection.records)

ById(records) == {records[i] : i \in 1 .. Len(records)}

(* C9: tombstone idempotence.  For every local record list L and every     *)
(* changeset C that contains a tombstone, merge(merge(L, C), C) equals     *)
(* merge(L, C) as a set keyed by id.                                       *)
TombstoneIdempotence ==
    (is_some(merged_again) /\ Tombstones(remote_changes) # {}) =>
        ById(unwrap(merged_again)) = ById(unwrap(merged))

\* Applied twice to a list holding the record the tombstone removes, next
\* to a record that stays.
TombstoneAppliedTwice ==
    /\ is_some(merged_again)
    /\ \E i \in Tombstones(remote_changes) :
         /\ remote_changes[i].id \in IdsOf(local_records)
         /\ remote_changes[i].id \notin IdsOf(unwrap(merged))
    /\ unwrap(merged) # << >>

DeltaFetched ==
    \E i \in Calls("get_changeset") : is_some(log[i].since) /\ log[i].ok

(* C8: merge associativity by snapshot.  Given the same server state, a    *)
(* sync over the snapshot of an earlier sync (a delta fetch with _since    *)
(* the timestamp of that snapshot) yields the same records, as a set keyed *)
(* by id, as one sync against an empty local store.                        *)
DeltaSyncEqualsFullSync ==
    (SyncDone /\ ReturnsOk /\ DeltaFetched) =>
        \A full \in merge_changes(<< >>, server_changeset(None).changes) :
            ById(Returned_collection.records) = ById(full)

\* A delta with a tombstone for a stored record and an entry for another id,
\* next to a stored record the delta does not touch.
DeltaMerged ==
    /\ SyncDone /\ ReturnsOk /\ DeltaFetched
    /\ LET changes == unwrap(changeset).changes
       IN /\ \E i \in Tombstones(changes) :
                changes[i].id \in IdsOf(unwrap(stored).records)
          /\ Len(changes) < Len(server.records)
    /\ Returned_collection.records # << >>

---------------------------------------------------------------------------
\* Calls on the storage backend that failed during the call.
StorageFailed ==
    \E i \in Calls("retrieve") \cup Calls("store") : ~log[i].ok

(* C11: a storage backend failure during sync, on the read (retrieve) of   *)
(* the local snapshot as well as on the write (store) of the verified      *)
(* candidate, is surfaced to the caller as StorageError.                   *)
StorageFailureSurfaced ==
    (SyncDone /\ StorageFailed) => Returns.kind = "StorageError"

\* The local snapshot of the call: the bytes the read returned, decoded.  A
\* read that failed returned no bytes.
LocalSnapshot == IF log[1].ok THEN Snapshot(before) ELSE None

(* C12: delta mode.  In every changeset request issued by sync, `_since`   *)
(* is supplied if and only if a local snapshot exists (stored bytes read   *)
(* and decodable), and when supplied its value is the timestamp of that    *)
(* local snapshot.                                                         *)
SinceIffLocalSnapshot ==
    op = "sync" =>
        \A i \in Calls("get_changeset") :
            /\ is_some(log[i].since) <=> is_some(LocalSnapshot)
            /\ is_some(log[i].since) =>
                   unwrap(log[i].since) = unwrap(LocalSnapshot).timestamp

\* A changeset request over a snapshot older than the target.
SinceSupplied ==
    /\ SyncDone
    /\ \E i \in Calls("get_changeset") :
         /\ is_some(log[i].since) /\ is_some(log[i].expected)
         /\ unwrap(log[i].since) < unwrap(log[i].expected)

(* C13: target resolution.  When `expected` is provided, sync uses it      *)
(* verbatim as the target and as `_expected` and never calls the           *)
(* latest-change lookup; when `expected` is absent, sync calls the lookup  *)
(* exactly once, before any changeset request, and uses the value it       *)
(* returns as the target and as `_expected`.                               *)
TargetResolution ==
    /\ (op = "sync" /\ is_some(expected)) =>
          /\ Calls("get_latest_change_timestamp") = {}
          /\ pc # "resolve" => remote_timestamp = expected
          /\ \A j \in Calls("get_changeset") : log[j].expected = expected
    /\ (op = "sync" /\ expected = None /\ pc # "resolve") =>
          /\ Cardinality(Calls("get_latest_change_timestamp")) = 1
          /\ \A i \in Calls("get_latest_change_timestamp") :
                /\ log[i].ok => remote_timestamp = log[i].value
                /\ \A j \in Calls("get_changeset") :
                      /\ i < j
                      /\ log[i].ok
                      /\ log[j].expected = log[i].value

\* A sync without `expected` that looked the target up and then fetched,
\* over a snapshot whose timestamp is not the target.
LookupThenFetch ==
    /\ SyncDone /\ expected = None /\ Fetched /\ ReturnsOk
    /\ is_some(stored)
    /\ unwrap(stored).timestamp # unwrap(remote_timestamp)

LookupFailed == \E i \in Calls("get_latest_change_timestamp") : ~log[i].ok
FetchFailed == \E i \in Calls("get_changeset") : ~log[i].ok

(* C14: a transport failure has no side effect on storage.  When the       *)
(* latest-change lookup fails (an unknown collection included) or the      *)
(* changeset fetch fails, sync returns ClientError::Error with the name of *)
(* the failure, the verifier is not run on any candidate, store is not     *)
(* invoked and the stored bytes are those of before the call; after a      *)
(* failed lookup no changeset request is issued.                           *)
TransportFailureHasNoEffect ==
    (op = "sync" /\ (LookupFailed \/ FetchFailed)) =>
        /\ pc = "done"
        /\ result \in {Some(ClientError("Error", e.name)) : e \in KintoErrors}
        /\ collection = None
        /\ \A i \in Calls("verify") : log[i].arg = stored
        /\ ~Stored
        /\ storage[OwnKey] = before
        /\ LookupFailed => ~Fetched

\* A changeset request that failed over a stored snapshot.
FetchFailedOverSnapshot ==
    SyncDone /\ FetchFailed /\ is_some(stored) /\ expected = None

---------------------------------------------------------------------------
(* The client against the settings server, with a local cache that can be  *)
(* tampered with between two calls: the bytes under the key are rewritten  *)
(* into another well-formed snapshot, with a record taken out or with      *)
(* another signature in the metadata.                                      *)

other_signature(signature) ==
    IF signature = "sig-even" THEN "sig-odd" ELSE "sig-even"

TamperedSnapshots(c) ==
    (IF c.records # << >> THEN {[c EXCEPT !.records = Tail(c.records)]} ELSE {})
    \cup {[c EXCEPT !.metadata = Metadata(other_signature(c.metadata.signature))]}

Tamper(c) ==
    /\ pc = "idle"
    /\ storage' = [storage EXCEPT ![OwnKey] = Some(to_bytes(c))]
    /\ UNCHANGED << verifier, server, pc, op, expected, stored, remote_timestamp,
                    changeset, collection, result, log, before >>

NextTamper ==
    \/ NextServer
    \/ \E c \in IF is_some(Snapshot(storage[OwnKey]))
                THEN TamperedSnapshots(unwrap(Snapshot(storage[OwnKey])))
                ELSE {} :
         Tamper(c) /\ UNCHANGED << harnessVars, previous >>

SpecTamper == InitServer /\ [][NextTamper]_vars

\* The collection the settings server holds, as a client that is in step has it.
ServerCollection ==
    Collection(DEFAULT_BUCKET_NAME, CollectionName,
               Metadata(signature_of(live_records, server.timestamp)),
               live_records, server.timestamp)

\* The call loaded a snapshot at the target that the verifier rejects.
TamperedAtTarget ==
    /\ op = "sync"
    /\ is_some(stored) /\ is_some(remote_timestamp)
    /\ unwrap(stored).timestamp = unwrap(remote_timestamp)
    /\ ~verify(verifier, unwrap(stored)).ok

(* C15: automatic recovery from a tampered cache.  When the timestamp of   *)
(* the stored snapshot equals the target but the verifier rejects the      *)
(* stored snapshot, and the collection of the server at that timestamp is  *)
(* one the verifier accepts, sync (its requests and its store succeeding)  *)
(* does not fail but returns and persists a snapshot the verifier accepts. *)
RecoversFromTamperedCache ==
    (/\ SyncDone /\ TamperedAtTarget
     /\ server.timestamp = unwrap(remote_timestamp)
     /\ verify(verifier, ServerCollection).ok
     /\ ~LookupFailed /\ ~FetchFailed
     /\ \A i \in Calls("store") : log[i].ok)
    => /\ ReturnsOk
       /\ verify(verifier, Returned_collection).ok
       /\ Snapshot(storage[OwnKey]) = Some(Returned_collection)

(* C16: persist-then-return.  Whenever sync returns Ok after a fetch,      *)
(* store has completed successfully in that call with the serialisation of *)
(* exactly the returned collection, so the bytes under the storage key     *)
(* decode to the returned snapshot and a get that follows immediately (and *)
(* reads these bytes) returns the same records.                            *)
PersistThenReturn ==
    (SyncDone /\ ReturnsOk /\ Fetched) =>
        /\ \E i \in Calls("store") :
              /\ log[i].ok
              /\ log[i].arg = Some(Returned_collection)
        /\ Snapshot(storage[OwnKey]) = Some(Returned_collection)
        /\ get_records(RetrieveOk(storage[OwnKey])) = Returned_collection.records

\* A fetch that replaced a stored snapshot by one with other records.
SnapshotReplaced ==
    /\ SyncDone /\ ReturnsOk /\ Fetched
    /\ is_some(Snapshot(before))
    /\ unwrap(Snapshot(before)).records # Returned_collection.records
    /\ Returned_collection.records # << >>

TransportFailures ==
    {i \in Calls("get_latest_change_timestamp") \cup Calls("get_changeset") :
        ~log[i].ok}

(* C18, as claimed: the classification of a transport failure into server *)
(* error and client error is carried to the caller of sync: the error sync *)
(* returns for a failure of one kind is never the error it returns for a   *)
(* failure of the other kind.                                              *)
ErrorKindCarried ==
    SyncDone =>
        \A i \in TransportFailures : \A e \in KintoErrors :
            result = Some(from_kinto_error(e)) => e.kind = log[i].kind

(* C18, amended: sync returns ClientError::Error with the name of the      *)
(* transport failure for a server error and for a client error alike; the  *)
(* classification is carried to sync, not to its caller, who can tell the  *)
(* two apart by the name only.                                             *)
ErrorKindFolded ==
    SyncDone =>
        \A i \in TransportFailures :
            /\ log[i].kind \in {"ServerError", "ClientError"}
            /\ result = Some(ClientError("Error", log[i].name))

\* A server error returned as the error a client error of that name gives.
ServerErrorAsClientError ==
    /\ SyncDone
    /\ \E i \in TransportFailures :
         /\ log[i].kind = "ServerError"
         /\ result = Some(from_kinto_error(KintoError("ClientError", log[i].name)))

\* The stored snapshot is at the target and the verifier accepts it.
FreshAndValid ==
    /\ is_some(stored) /\ is_some(remote_timestamp)
    /\ unwrap(stored).timestamp = unwrap(remote_timestamp)
    /\ verify(verifier, unwrap(stored)).ok

(* C19: the fast path is taken only on exact equality plus acceptance.     *)
(* Whenever no decodable local snapshot was loaded, or the local timestamp *)
(* differs from the target (a stale `expected` older than the local        *)
(* timestamp included), or the verifier rejects the stored snapshot, sync  *)
(* does not fail at that point but issues exactly one changeset request,   *)
(* with `_expected` equal to the target.                                   *)
RefetchUnlessFreshAndValid ==
    (op = "sync" /\ is_some(remote_timestamp) /\ ~FreshAndValid) =>
        IF pc = "fetch"
        THEN result = None /\ ~Fetched
        ELSE /\ Cardinality(Calls("get_changeset")) = 1
             /\ \A i \in Calls("get_changeset") :
                   log[i].expected = remote_timestamp

\* A refetch over a stored snapshot at the target that the verifier rejects.
RefetchOverTampered ==
    SyncDone /\ TamperedAtTarget /\ Fetched

\* A refetch for a stale `expected`, older than the accepted local snapshot.
RefetchForStaleExpected ==
    /\ SyncDone /\ Fetched /\ is_some(stored)
    /\ unwrap(stored).timestamp > unwrap(remote_timestamp)
    /\ verify(verifier, unwrap(stored)).ok

---------------------------------------------------------------------------
\* The keys (ids as written by to_string) of a record list, the places of
\* a key in it and the first of them.
KeysOf(records) == {id_to_string(records[i]) : i \in 1 .. Len(records)}
Places(records, key) ==
    {i \in 1 .. Len(records) : id_to_string(records[i]) = key}
FirstPlace(records, key) ==
    CHOOSE i \in Places(records, key) : \A j \in Places(records, key) : i <= j

(* C20: merge_changes is newest-wins by id over a newest-first change      *)
(* list.  For every id that appears in remote_changes the result is        *)
(* determined by the first entry of that id in the list alone: no record   *)
(* with that id when the entry is a tombstone, exactly that entry          *)
(* otherwise, whatever the local records and the later entries of the id   *)
(* are; every local record whose id does not appear in remote_changes is   *)
(* carried over unchanged.                                                 *)
NewestWinsById ==
    is_some(merged) =>
        LET records == unwrap(merged)
        IN /\ \A key \in KeysOf(remote_changes) :
                LET first == remote_changes[FirstPlace(remote_changes, key)]
                IN IF first.deleted = JsonTrue
                   THEN Places(records, key) = {}
                   ELSE /\ Cardinality(Places(records, key)) = 1
                        /\ \A i \in Places(records, key) : records[i] = first
           /\ \A l \in 1 .. Len(local_records) :
                id_to_string(local_records[l]) \notin KeysOf(remote_changes) =>
                    /\ Cardinality(Places(records, id_to_string(local_records[l]))) = 1
                    /\ \A i \in Places(records, id_to_string(local_records[l])) :
                          records[i] = local_records[l]
           /\ KeysOf(records) \subseteq KeysOf(remote_changes) \cup KeysOf(local_records)

\* Two entries for the id of a local record, the first one written over an
\* older tombstone, next to a local record that no change names.
NewestEntryWon ==
    /\ is_some(merged)
    /\ Len(remote_changes) = 2
    /\ id_to_string(remote_changes[1]) = id_to_string(remote_changes[2])
    /\ remote_changes[1].deleted # JsonTrue
    /\ remote_changes[2].deleted = JsonTrue
    /\ id_to_string(remote_changes[1]) \in KeysOf(local_records)
    /\ KeysOf(local_records) \ KeysOf(remote_changes) # {}

---------------------------------------------------------------------------
(* merge_changes over changes that carry, next to every value of           *)
(* "deleted", the field `"delete": true` of the second changeset of        *)
(* test_sync_returns_collection_with_merged_changes.                       *)

DeleteTrueField == "\"delete\": true"

TombstoneChanges ==
    {KintoObject(i, d, f) :
        i \in Ids, d \in DeletedValues, f \in {"after", DeleteTrueField}}

InitTombstone ==
    /\ local_records \in {<< >>} \cup {<< l >> : l \in HarnessLocals}
    /\ remote_changes \in SeqsUpTo(TombstoneChanges, MaxMergeLen)
    /\ merged = None /\ merged_again = None
    /\ ClientIdle

SpecTombstone == InitTombstone /\ [][NextMerge]_vars

(* C21: only `deleted` set to the boolean true makes a change a tombstone. *)
(* A change whose `deleted` is absent, false or not a boolean is inserted  *)
(* or overwrites by id, also when it carries another field such as         *)
(* `delete: true`: being the newest entry of its id, it is the record of   *)
(* that id in the merged result; the id is missing from the result exactly *)
(* when the newest entry has `deleted` true.                               *)
OnlyDeletedTrueIsTombstone ==
    is_some(merged) =>
        \A key \in KeysOf(remote_changes) :
            LET newest == remote_changes[FirstPlace(remote_changes, key)]
            IN /\ newest.deleted \in {Absent, JsonFalse, JsonString} =>
                    newest \in ById(unwrap(merged))
               /\ Places(unwrap(merged), key) = {} <=> newest.deleted = JsonTrue

\* A change with `delete: true` and a `deleted` that is no boolean took the
\* place of the local record of its id.
DeleteTrueOverwrote ==
    /\ is_some(merged)
    /\ \E i \in 1 .. Len(remote_changes) :
         /\ remote_changes[i].field = DeleteTrueField
         /\ remote_changes[i].deleted = JsonString
         /\ id_to_string(remote_changes[i]) \in KeysOf(local_records)
         /\ remote_changes[i] \in ById(unwrap(merged))

---------------------------------------------------------------------------
\* The step of sync a logged call belongs to: load, resolve, the fast-path
\* check, fetch, the verification of the merged candidate, store.
Step(i) ==
    CASE log[i].call = "retrieve" -> 1
      [] log[i].call = "get_latest_change_timestamp" -> 2
      [] log[i].call = "get_changeset" -> 4
      [] log[i].call = "store" -> 6
      [] OTHER -> IF \E j \in Calls("get_changeset") : j < i THEN 5 ELSE 3

\* The steps occur in the fixed order, each at most once, and a store is
\* the last call, after the verifier accepted the candidate it stores.
StepsInOrder ==
    op = "sync" =>
        /\ \A i, j \in 1 .. Len(log) : i < j => Step(i) < Step(j)
        /\ \A s \in Calls("store") :
              /\ s = Len(log)
              /\ \E v \in Calls("verify") :
                    v < s /\ Step(v) = 5 /\ log[v].ok /\ log[v].arg = log[s].arg

\* A step that failed ended the call with an error; the rejection of the
\* stored snapshot on the fast path is no failure of the call.
FailuresTerminal ==
    op = "sync" =>
        \A i \in 1 .. Len(log) :
            (~log[i].ok /\ Step(i) # 3) =>
                /\ i = Len(log)
                /\ pc = "done"
                /\ ~ReturnsOk

(* C22: within one sync call the steps occur in the fixed order load,      *)
(* resolve, fetch, merge, verify, store, each at most once: no lookup,     *)
(* changeset request or store is retried, every failure is terminal for    *)
(* the call, and a store, when it happens, is the last side effect and     *)
(* follows a successful verification of the stored candidate.              *)
FixedOrderEveryFailureTerminal ==
    StepsInOrder /\ FailuresTerminal

---------------------------------------------------------------------------
(* C23: storage key isolation.  sync and get read and write only the key   *)
(* "{bucket}/{collection}:collection" of their own client; every other key *)
(* of a shared storage, the key of another collection included, holds      *)
(* after any sequence of sync and get calls the bytes it held at first.    *)
KeyIsolation ==
    /\ \A i \in Calls("retrieve") \cup Calls("store") :
          log[i].key = DEFAULT_BUCKET_NAME \o "/" \o CollectionName \o ":collection"
    /\ storage[OtherCollectionKey] = Some(OtherCollectionBytes)
    /\ storage[OtherKey] = Some(MalformedBytes)

\* A sync wrote its snapshot, with a record, under its own key.
OwnKeyWritten ==
    /\ SyncDone /\ ReturnsOk /\ Stored
    /\ storage[OwnKey] # before
    /\ Returned_collection.records # << >>
    /\ storage[OtherCollectionKey] # storage[OwnKey]

---------------------------------------------------------------------------
(* The client against the settings server, with the memory of the last     *)
(* sync: its target and the bytes it left under the key, kept while it is  *)
(* the last sync and the server has not changed since.                     *)

Previous(target, bytes) == [target |-> target, stored |-> bytes]

\* The call returns to the caller: a successful sync is remembered, a
\* failed one is forgotten with the one before it, a get changes nothing.
ReturnedRemembered ==
    /\ Returned
    /\ previous' = IF op = "get" THEN previous
                   ELSE IF ReturnsOk
                   THEN Some(Previous(unwrap(remote_timestamp), storage[OwnKey]))
                   ELSE None

InitRepeat == InitServer

NextRepeat ==
    \/ \E exp \in {None} \cup {Some(t) : t \in Timestamps} :
         \E retrieved \in retrieve(OwnKey) :
           SyncLoad(exp, retrieved) /\ UNCHANGED << harnessVars, previous >>
    \/ SyncResolveExpected /\ UNCHANGED << harnessVars, previous >>
    \/ \E latest \in {KintoOk(server_latest_change)} \cup KintoErrors :
         SyncResolveLatest(latest) /\ UNCHANGED << harnessVars, previous >>
    \/ \E response \in {KintoOk(server_changeset(local_timestamp_of(stored)))}
                          \cup KintoErrors :
         SyncFetch(response) /\ UNCHANGED << harnessVars, previous >>
    \/ \E outcome \in StoreOutcomes :
         SyncStore(outcome) /\ UNCHANGED << harnessVars, previous >>
    \/ \E retrieved \in retrieve(OwnKey) :
         Get(retrieved) /\ UNCHANGED << harnessVars, previous >>
    \/ ReturnedRemembered /\ UNCHANGED harnessVars
    \/ \E id \in Ids, field \in Fields :
         ServerPublish(id, field) /\ previous' = None /\ UNCHANGED harnessVars
    \/ \E id \in Ids :
         ServerDelete(id) /\ previous' = None /\ UNCHANGED harnessVars

SpecRepeat == InitRepeat /\ [][NextRepeat]_vars

\* This sync repeats the last one: same target, and no call of it failed.
RepeatedSync ==
    /\ SyncDone /\ is_some(previous)
    /\ remote_timestamp = Some(unwrap(previous).target)
    /\ \A i \in 1 .. Len(log) : log[i].call # "verify" => log[i].ok

(* C24: repeating a sync is idempotent on storage.  After a successful     *)
(* sync with target t, a second sync with the same target against an       *)
(* unchanged server (answered by the server, and by the storage) succeeds  *)
(* and leaves the persisted snapshot with the same timestamp, metadata and *)
(* records (as a set keyed by id), on the fast path as well as when it     *)
(* refetches because the timestamp of the server differs from t.           *)
RepeatSyncIdempotent ==
    RepeatedSync =>
        /\ ReturnsOk
        /\ is_some(Snapshot(unwrap(previous).stored))
        /\ is_some(Snapshot(storage[OwnKey]))
        /\ LET first == unwrap(Snapshot(unwrap(previous).stored))
               second == unwrap(Snapshot(storage[OwnKey]))
           IN /\ second.timestamp = first.timestamp
              /\ second.metadata = first.metadata
              /\ ById(second.records) = ById(first.records)

\* The second sync refetched, the server being at another timestamp than
\* the target, over a snapshot that has records.
RepeatRefetched ==
    /\ RepeatedSync /\ Fetched
    /\ server.timestamp # unwrap(remote_timestamp)
    /\ unwrap(Snapshot(storage[OwnKey])).records # << >>

\* The second sync took the fast path.
RepeatOnFastPath ==
    RepeatedSync /\ ~Fetched /\ ReturnsOk

====
